---- MODULE Spec2Model ----
(***************************************************************************)
(* Model of src/main.py: the PDFProcessor heading heuristics               *)
(* (clean_text, is_ignored_text, get_font_properties,                      *)
(* determine_heading_level, extract_pdf_structure) and the batch driver    *)
(* process_pdfs.                                                           *)
(*                                                                         *)
(* Texts are sequences of one-character strings.  Font sizes and page      *)
(* coordinates are integers in tenths of a unit (17.5 is 175).             *)
(***************************************************************************)
EXTENDS Integers, Sequences, FiniteSets, TLC

VARIABLES
    \* clean_text applied twice to one raw text
    raw, cleaned, recleaned, cpc,
    \* one call of determine_heading_level
    h_text, h_props, h_level, h_rule, hpc,
    \* one call of extract_pdf_structure: its locals, and the pages and
    \* lines the document has handed over so far
    doc_open, page_num, width, height, elements, result, epc,
    page_heights, visited,
    \* one run of process_pdfs: the directories, the loop position, the open
    \* document handles, what was printed, and how each extraction ended
    listing, output_dir_exists, file_idx, bpc, open_handles, outputs, writes,
    found, errors, outcome

cleanVars == <<raw, cleaned, recleaned, cpc>>

classifyVars == <<h_text, h_props, h_level, h_rule, hpc>>

extractVars ==
    <<doc_open, page_num, width, height, elements, result, epc,
      page_heights, visited>>

batchVars ==
    <<listing, output_dir_exists, file_idx, bpc, open_handles, outputs, writes,
      found, errors, outcome>>

\* each machine leaves the variables of the others alone
notClean == <<classifyVars, extractVars, batchVars>>

notClassify == <<cleanVars, extractVars, batchVars>>

notExtract == <<cleanVars, classifyVars, batchVars>>

notBatch == <<cleanVars, classifyVars, extractVars>>

-----------------------------------------------------------------------------
(* Characters and the str / re primitives the program calls *)

LowerSeq == <<"a","b","c","d","e","f","g","h","i","j","k","l","m",
              "n","o","p","q","r","s","t","u","v","w","x","y","z">>

UpperSeq == <<"A","B","C","D","E","F","G","H","I","J","K","L","M",
              "N","O","P","Q","R","S","T","U","V","W","X","Y","Z">>

Digits == {"0","1","2","3","4","5","6","7","8","9"}

LowerLetters == {"a","b","c","d","e","f","g","h","i","j","k","l","m",
                 "n","o","p","q","r","s","t","u","v","w","x","y","z"}

UpperLetters == {"A","B","C","D","E","F","G","H","I","J","K","L","M",
                 "N","O","P","Q","R","S","T","U","V","W","X","Y","Z"}

WordChars == LowerLetters \cup UpperLetters \cup Digits \cup {"_"}

\* the characters str.strip, str.split and the regex class \s treat as space
Whitespace == {" ", "\t", "\n", "\r", "\f"}

\* the regex class \w
IsWordChar(c) == c \in WordChars

\* str.lower on one character
lower_char(c) ==
    IF c \in UpperLetters
    THEN LowerSeq[CHOOSE i \in DOMAIN UpperSeq : UpperSeq[i] = c]
    ELSE c

\* str.lower
RECURSIVE lower(_)
lower(s) == IF s = <<>> THEN <<>> ELSE <<lower_char(Head(s))>> \o lower(Tail(s))

\* the literal lit occurs in s at position i
MatchAt(s, lit, i) ==
    /\ i >= 1
    /\ i + Len(lit) - 1 <= Len(s)
    /\ \A k \in 1..Len(lit) : s[i + k - 1] = lit[k]

\* s[a..b] holds no newline: what the regex ".*" can cross
NoNewline(s, a, b) == \A k \in a..b : s[k] # "\n"

RECURSIVE lstrip(_)
lstrip(s) ==
    IF s = <<>> THEN s
    ELSE IF Head(s) \in Whitespace THEN lstrip(Tail(s)) ELSE s

RECURSIVE rstrip(_)
rstrip(s) ==
    IF s = <<>> THEN s
    ELSE IF s[Len(s)] \in Whitespace THEN rstrip(SubSeq(s, 1, Len(s) - 1)) ELSE s

\* str.strip
strip(s) == rstrip(lstrip(s))

\* str.split(): the maximal runs of non-whitespace characters, in order
RECURSIVE SplitFrom(_, _, _)
SplitFrom(s, i, cur) ==
    IF i > Len(s) THEN (IF cur = <<>> THEN <<>> ELSE <<cur>>)
    ELSE IF s[i] \in Whitespace
         THEN (IF cur = <<>> THEN <<>> ELSE <<cur>>) \o SplitFrom(s, i + 1, <<>>)
         ELSE SplitFrom(s, i + 1, Append(cur, s[i]))

split(s) == SplitFrom(s, 1, <<>>)

\* ' '.join(words)
RECURSIVE join(_)
join(words) ==
    IF words = <<>> THEN <<>>
    ELSE IF Len(words) = 1 THEN words[1]
    ELSE words[1] \o <<" ">> \o join(Tail(words))

-----------------------------------------------------------------------------
(* clean_text *)

Hope == <<"h","o","p","e">>

See == <<"s","e","e">>

There == <<"t","h","e","r","e">>

\* 'HOPE TO SEE YOU THERE!'
HopeReplacement ==
    <<"H","O","P","E"," ","T","O"," ","S","E","E"," ",
      "Y","O","U"," ","T","H","E","R","E","!">>

\* r'hope.*see.*there' found somewhere in s
SearchHopeSeeThereIn(s) ==
    \E i \in 1..Len(s) :
        /\ MatchAt(s, Hope, i)
        /\ \E j \in (i + Len(Hope))..Len(s) :
              /\ MatchAt(s, See, j)
              /\ NoNewline(s, i + Len(Hope), j - 1)
              /\ \E k \in (j + Len(See))..Len(s) :
                    /\ MatchAt(s, There, k)
                    /\ NoNewline(s, j + Len(See), k - 1)

\* re.search(r'hope.*see.*there', text, re.IGNORECASE)
SearchHopeSeeThere(text) == SearchHopeSeeThereIn(lower(text))

\* the one entry of self.special_cases
special_cases == <<[pattern |-> "hope.*see.*there", replacement |-> HopeReplacement]>>

\* re.sub(r'[\s\-_]+$', '', text)
RECURSIVE StripTrailingRun(_)
StripTrailingRun(s) ==
    IF s = <<>> THEN s
    ELSE IF s[Len(s)] \in Whitespace \cup {"-", "_"}
         THEN StripTrailingRun(SubSeq(s, 1, Len(s) - 1))
         ELSE s

SubPunct == {".", ",", ";", "!", "?"}

\* first position at or after i that holds no whitespace (Len(s)+1 if none)
RECURSIVE SkipSpace(_, _)
SkipSpace(s, i) ==
    IF i > Len(s) THEN i
    ELSE IF s[i] \in Whitespace THEN SkipSpace(s, i + 1) ELSE i

\* re.sub(r'(\w)\s+([.,;!?])', r'\1\2', text), scanning left to right
RECURSIVE SubSpaceBeforePunct(_, _)
SubSpaceBeforePunct(s, i) ==
    IF i > Len(s) THEN <<>>
    ELSE LET j == SkipSpace(s, i + 1) IN
         IF /\ IsWordChar(s[i])
            /\ j > i + 1
            /\ j <= Len(s)
            /\ s[j] \in SubPunct
         THEN <<s[i], s[j]>> \o SubSpaceBeforePunct(s, j + 1)
         ELSE <<s[i]>> \o SubSpaceBeforePunct(s, i + 1)

\* clean_text after text = text.strip()
clean_stripped(text) ==
    IF SearchHopeSeeThere(text) THEN special_cases[1].replacement
    ELSE SubSpaceBeforePunct(join(split(StripTrailingRun(text))), 1)

clean_text(t) == clean_stripped(strip(t))

-----------------------------------------------------------------------------
(* is_ignored_text *)

Http == <<"h","t","t","p">>

Www == <<"w","w","w">>

DotCom == <<".","c","o","m">>

Rsvp == <<"r","s","v","p">>

Date == <<"d","a","t","e">>

Time == <<"t","i","m","e">>

Address == <<"a","d","d","r","e","s","s">>

\* r'^[\W_]+$'
PatternPunctuation(s) ==
    /\ Len(s) >= 1
    /\ \A i \in 1..Len(s) : ~IsWordChar(s[i]) \/ s[i] = "_"

AllDigits(s, n) == \A i \in 1..n : s[i] \in Digits

\* r'^[0-9]{1,3}$' ("$" also matches before one final newline)
PatternShortNumber(s) ==
    \/ Len(s) \in 1..3 /\ AllDigits(s, Len(s))
    \/ Len(s) \in 2..4 /\ s[Len(s)] = "\n" /\ AllDigits(s, Len(s) - 1)

\* r'^(http|www|\.com)'
PatternUrl(s) == MatchAt(s, Http, 1) \/ MatchAt(s, Www, 1) \/ MatchAt(s, DotCom, 1)

\* the regex \b before a word character at position i
WordBoundaryBefore(s, i) == i = 1 \/ ~IsWordChar(s[i - 1])

\* r'\b(rsvp|date|time|address):?'
PatternLabel(s) ==
    \E i \in 1..Len(s) :
        /\ WordBoundaryBefore(s, i)
        /\ \/ MatchAt(s, Rsvp, i) \/ MatchAt(s, Date, i)
           \/ MatchAt(s, Time, i) \/ MatchAt(s, Address, i)

\* r'^\s*$'
PatternBlank(s) == \A i \in 1..Len(s) : s[i] \in Whitespace

\* any(re.search(pattern, s) for pattern in self.ignore_patterns)
ignore_patterns(s) ==
    \/ PatternPunctuation(s)
    \/ PatternShortNumber(s)
    \/ PatternUrl(s)
    \/ PatternLabel(s)
    \/ PatternBlank(s)

is_ignored_text(text) == ignore_patterns(lower(text))

-----------------------------------------------------------------------------
(* determine_heading_level *)

\* float('inf'), above every modelled size
Infinity == 1000000

None == "None"

heading_profiles_swapped ==
    << [level |-> "H2", min_size |-> 180, max_size |-> 239,
        weight |-> "bold", case |-> "title", min_length |-> 4],
       [level |-> "H1", min_size |-> 175, max_size |-> Infinity,
        weight |-> "bold", case |-> "any", min_length |-> 5],
       [level |-> "H3", min_size |-> 140, max_size |-> 179,
        weight |-> "any", case |-> "any", min_length |-> 3] >>

heading_profiles_long_h3 ==
    << [level |-> "H1", min_size |-> 175, max_size |-> Infinity,
        weight |-> "bold", case |-> "any", min_length |-> 5],
       [level |-> "H2", min_size |-> 180, max_size |-> 239,
        weight |-> "bold", case |-> "title", min_length |-> 4],
       [level |-> "H3", min_size |-> 140, max_size |-> 179,
        weight |-> "any", case |-> "any", min_length |-> 4] >>

\* self.heading_profiles, in insertion order
heading_profiles ==
    << [level |-> "H1", min_size |-> 175, max_size |-> Infinity,
        weight |-> "bold", case |-> "any", min_length |-> 5],
       [level |-> "H2", min_size |-> 180, max_size |-> 239,
        weight |-> "bold", case |-> "title", min_length |-> 4],
       [level |-> "H3", min_size |-> 140, max_size |-> 179,
        weight |-> "any", case |-> "any", min_length |-> 3] >>

\* str.isupper: some cased character, and no lowercase one
isupper(s) ==
    /\ \E i \in 1..Len(s) : s[i] \in UpperLetters
    /\ \A i \in 1..Len(s) : s[i] \notin LowerLetters

\* str.istitle: uppercase only after uncased, lowercase only after cased
RECURSIVE TitleFrom(_, _, _, _)
TitleFrom(s, i, prev_cased, cased) ==
    IF i > Len(s) THEN cased
    ELSE IF s[i] \in UpperLetters
         THEN (IF prev_cased THEN FALSE ELSE TitleFrom(s, i + 1, TRUE, TRUE))
    ELSE IF s[i] \in LowerLetters
         THEN (IF prev_cased THEN TitleFrom(s, i + 1, TRUE, TRUE) ELSE FALSE)
    ELSE TitleFrom(s, i + 1, FALSE, cased)

istitle(s) == TitleFrom(s, 1, FALSE, FALSE)

text_case_of(text) ==
    IF isupper(text) THEN "upper" ELSE IF istitle(text) THEN "title" ELSE "any"

profile_matches(profile, text, font_props) ==
    LET size_ok == /\ profile.min_size <= font_props.size
                   /\ font_props.size <= profile.max_size
        weight_ok == \/ profile.weight = "any"
                     \/ (profile.weight = "bold" /\ font_props.is_bold)
                     \/ (profile.weight = "regular" /\ ~font_props.is_bold)
        case_ok == profile.case = "any" \/ profile.case = text_case_of(text)
        length_ok == Len(text) >= profile.min_length
    IN size_ok /\ weight_ok /\ case_ok /\ length_ok

\* the rules after the veto: the first matching profile, then the fallbacks;
\* rule names the rule that decided
match_rules(text, font_props) ==
    LET hits == {p \in DOMAIN heading_profiles :
                    profile_matches(heading_profiles[p], text, font_props)}
        words == Len(split(text))
        size == font_props.size
    IN IF hits # {}
       THEN LET first == CHOOSE p \in hits : \A q \in hits : p <= q
            IN [level |-> heading_profiles[first].level,
                rule |-> heading_profiles[first].level]
       ELSE IF 140 <= size /\ size <= 165 /\ font_props.is_bold
               /\ 2 <= words /\ words <= 5
            THEN [level |-> "H2", rule |-> "fallback_H2"]
       ELSE IF size >= 200 /\ Len(text) >= 10
            THEN [level |-> "H1", rule |-> "fallback_H1"]
       ELSE IF 135 <= size /\ size <= 165 /\ words <= 6
            THEN [level |-> "H3", rule |-> "fallback_H3"]
       ELSE [level |-> None, rule |-> "none"]

classify_without_veto(text, font_props) == match_rules(text, font_props)

\* determine_heading_level with the deciding rule
classify(text, font_props) ==
    IF is_ignored_text(text) THEN [level |-> None, rule |-> "ignored"]
    ELSE match_rules(text, font_props)

determine_heading_level(text, font_props) == classify(text, font_props).level

-----------------------------------------------------------------------------
(* get_font_properties, the centering test, title and heading detection *)

Bold == <<"b","o","l","d">>

\* "bold" in span["font"].lower()
IsBoldFont(font) ==
    LET f == lower(font) IN \E i \in 1..Len(f) : MatchAt(f, Bold, i)

RECURSIVE MaxSize(_)
MaxSize(spans) ==
    IF Len(spans) = 1 THEN spans[1].size
    ELSE LET m == MaxSize(Tail(spans)) IN
         IF spans[1].size >= m THEN spans[1].size ELSE m

\* defined for a non-empty list of spans only
get_font_properties(spans) ==
    [size |-> MaxSize(spans),
     is_bold |-> \E i \in 1..Len(spans) : IsBoldFont(spans[i].font),
     color |-> spans[1].color]

\* "".join(span["text"] for span in line["spans"])
RECURSIVE JoinSpanTexts(_)
JoinSpanTexts(spans) ==
    IF spans = <<>> THEN <<>> ELSE Head(spans).text \o JoinSpanTexts(Tail(spans))

\* page_margin = width * 0.15; centered if inside both margins, or at least
\* 60% of the page wide
is_centered(bbox, w) ==
    LET x0 == bbox[1]
        x1 == bbox[3]
        line_width == x1 - x0
    IN \/ (x0 * 100 > w * 15 /\ x1 * 100 < w * 100 - w * 15)
       \/ line_width * 10 >= w * 6

\* the body of the loop over block["lines"]: the elements after one line
read_line(elems, line, page, w) ==
    IF line.spans = <<>> THEN elems
    ELSE LET line_text == JoinSpanTexts(line.spans)
             font_props == get_font_properties(line.spans)
             clean == clean_text(line_text)
         IN IF clean = <<>> THEN elems
            ELSE Append(elems, [text |-> clean,
                                props |-> font_props,
                                page |-> page,
                                bbox |-> line.bbox,
                                center_pos |-> is_centered(line.bbox, w)])

RECURSIVE max_by_size_last(_)
max_by_size_last(cands) ==
    IF Len(cands) = 1 THEN cands[1]
    ELSE LET best == max_by_size_last(SubSeq(cands, 1, Len(cands) - 1))
             last == cands[Len(cands)]
         IN IF last.props.size >= best.props.size THEN last ELSE best

\* max(cands, key=size) on a non-empty list: a later candidate replaces the
\* best so far only when it is strictly larger
RECURSIVE max_by_size(_)
max_by_size(cands) ==
    IF Len(cands) = 1 THEN cands[1]
    ELSE LET best == max_by_size(SubSeq(cands, 1, Len(cands) - 1))
             last == cands[Len(cands)]
         IN IF last.props.size > best.props.size THEN last ELSE best

\* the title block: h is the value of the local "height" when it runs
detect_title(elems, h) ==
    IF elems = <<>> THEN <<>>
    ELSE LET OnFirstPage(e) == e.page = 0
             first_page_elements == SelectSeq(elems, OnFirstPage)
             Qualifies(e) == e.center_pos /\ e.bbox[2] * 10 < h * 3
             cands == SelectSeq(first_page_elements, Qualifies)
         IN IF cands = <<>> THEN <<>>
            ELSE LET candidate == max_by_size(cands) IN
                 IF Len(candidate.text) >= 5 THEN candidate.text ELSE <<>>

RECURSIVE detect_headings_merged(_)
detect_headings_merged(elems) ==
    IF elems = <<>> THEN <<>>
    ELSE LET before == detect_headings_merged(SubSeq(elems, 1, Len(elems) - 1))
             elem == elems[Len(elems)]
             lvl == determine_heading_level(elem.text, elem.props)
         IN IF lvl = None THEN before
            ELSE IF before # <<>> /\ before[Len(before)].level = lvl THEN before
            ELSE Append(before, [level |-> lvl, text |-> elem.text,
                                 page |-> elem.page])

\* the heading loop: the outline after all elements
RECURSIVE detect_headings(_)
detect_headings(elems) ==
    IF elems = <<>> THEN <<>>
    ELSE LET before == detect_headings(SubSeq(elems, 1, Len(elems) - 1))
             elem == elems[Len(elems)]
             lvl == determine_heading_level(elem.text, elem.props)
         IN IF lvl = None THEN before
            ELSE Append(before, [level |-> lvl, text |-> elem.text,
                                 page |-> elem.page])

-----------------------------------------------------------------------------
(* Bounded texts: concatenations of at most MaxFrags fragments *)

MaxCleanFrags == 4

RECURSIVE Flatten(_)
Flatten(fs) == IF fs = <<>> THEN <<>> ELSE Head(fs) \o Flatten(Tail(fs))

SeqsUpTo(S, n) == UNION {[1..m -> S] : m \in 0..n}

TextsOver(frags, n) == {Flatten(fs) : fs \in SeqsUpTo(frags, n)}

CleanFrags ==
    {Hope, See, There, <<" ">>, <<"\n">>, <<"-">>, <<"_">>, <<".">>, <<"a">>}

-----------------------------------------------------------------------------
(* clean_text applied to a raw text, then to its own result *)

InitClean ==
    /\ raw \in TextsOver(CleanFrags, MaxCleanFrags)
    /\ cleaned = <<>>
    /\ recleaned = <<>>
    /\ cpc = "raw"
    \* the other machines stay idle
    /\ h_text = <<>>
    /\ h_props = [size |-> 0, is_bold |-> FALSE, color |-> 0]
    /\ h_level = None
    /\ h_rule = "unset"
    /\ hpc = "idle"
    /\ doc_open = FALSE
    /\ page_num = -1
    /\ width = 0
    /\ height = 0
    /\ elements = <<>>
    /\ result = [title |-> <<>>, outline |-> <<>>]
    /\ epc = "idle"
    /\ page_heights = <<>>
    /\ visited = <<>>
    /\ listing = <<>>
    /\ output_dir_exists = TRUE
    /\ file_idx = 0
    /\ bpc = "idle"
    /\ open_handles = {}
    /\ outputs = {}
    /\ writes = <<>>
    /\ found = <<>>
    /\ errors = <<>>
    /\ outcome = <<>>

Clean ==
    /\ cpc = "raw"
    /\ cleaned' = clean_text(raw)
    /\ cpc' = "cleaned"
    /\ UNCHANGED <<notClean, raw, recleaned>>

CleanAgain ==
    /\ cpc = "cleaned"
    /\ recleaned' = clean_text(cleaned)
    /\ cpc' = "recleaned"
    /\ UNCHANGED <<notClean, raw, cleaned>>

NextClean == Clean \/ CleanAgain

-----------------------------------------------------------------------------
(* determine_heading_level applied to one text and one font profile *)

MaxTextFrags == 4

TextFrags == {<<"A">>, <<"b">>, <<" ">>, <<"1">>, <<".">>, Date}

ClassifySizes == {130, 135, 140, 165, 166, 175, 179, 180, 199, 200, 239, 240}

InitClassify ==
    /\ h_text \in TextsOver(TextFrags, MaxTextFrags)
    /\ h_props \in [size : ClassifySizes, is_bold : BOOLEAN, color : {0}]
    /\ h_level = None
    /\ h_rule = "unset"
    /\ hpc = "call"
    \* the other machines stay idle
    /\ raw = <<>>
    /\ cleaned = <<>>
    /\ recleaned = <<>>
    /\ cpc = "idle"
    /\ doc_open = FALSE
    /\ page_num = -1
    /\ width = 0
    /\ height = 0
    /\ elements = <<>>
    /\ result = [title |-> <<>>, outline |-> <<>>]
    /\ epc = "idle"
    /\ page_heights = <<>>
    /\ visited = <<>>
    /\ listing = <<>>
    /\ output_dir_exists = TRUE
    /\ file_idx = 0
    /\ bpc = "idle"
    /\ open_handles = {}
    /\ outputs = {}
    /\ writes = <<>>
    /\ found = <<>>
    /\ errors = <<>>
    /\ outcome = <<>>

Classify ==
    /\ hpc = "call"
    /\ h_level' = determine_heading_level(h_text, h_props)
    /\ h_rule' = classify(h_text, h_props).rule
    /\ hpc' = "returned"
    /\ UNCHANGED <<notClassify, h_text, h_props>>

NextClassify == Classify

-----------------------------------------------------------------------------
(* extract_pdf_structure on a document of at most MaxPages pages and       *)
(* MaxItems blocks and lines.  The document is the external parser's: each *)
(* page and line is chosen when the loop reaches it.  A text block's lines *)
(* are visited in order, so block boundaries carry no state.               *)

MaxPages == 2

MaxItems == 2

PageWidths == {100}

PageHeights == {100, 400}

Helv == <<"H","e","l","v">>

HelvBold == <<"H","e","l","v","-","B","o","l","d">>

Styles == {[size |-> 160, font |-> Helv], [size |-> 200, font |-> HelvBold]}

Intro == <<"I","n","t","r","o">>

Times == <<"t","i","m","e","s">>

SpanTexts == {Intro, Times, <<"A","b">>}

\* centered near the top
CenteredTop == <<20, 20, 80, 30>>

\* centered by its width, lower down the page
CenteredLow == <<0, 50, 100, 60>>

\* at the left margin, near the top
LeftTop == <<0, 20, 30, 30>>

OneSpanLine(t, st, b) ==
    [spans |-> <<[text |-> t, size |-> st.size, font |-> st.font, color |-> 0]>>,
     bbox |-> b]

LargeBold == [size |-> 200, font |-> HelvBold]

\* every text in every style at the top centre, and one large line at each
\* of the other two places
OneSpanLines ==
    {OneSpanLine(t, st, CenteredTop) : t \in SpanTexts, st \in Styles}
        \cup {OneSpanLine(Intro, LargeBold, b) : b \in {CenteredLow, LeftTop}}

OtherLines ==
    { \* a line without spans
      [spans |-> <<>>, bbox |-> CenteredTop],
      \* a line of whitespace
      [spans |-> <<[text |-> <<" ">>, size |-> 200, font |-> HelvBold, color |-> 0]>>,
       bbox |-> CenteredTop],
      \* a line of two spans
      [spans |-> <<[text |-> <<"I","n">>, size |-> 160, font |-> Helv, color |-> 0],
                   [text |-> <<"t","r","o"," ","-">>, size |-> 200,
                    font |-> HelvBold, color |-> 1]>>,
       bbox |-> CenteredTop] }

Lines == OneSpanLines \cup OtherLines

InitExtract ==
    /\ doc_open = FALSE
    /\ page_num = -1
    /\ width = 0
    /\ height = 0
    /\ elements = <<>>
    /\ result = [title |-> <<>>, outline |-> <<>>]
    /\ epc = "open"
    /\ page_heights = <<>>
    /\ visited = <<>>
    \* the other machines stay idle
    /\ raw = <<>>
    /\ cleaned = <<>>
    /\ recleaned = <<>>
    /\ cpc = "idle"
    /\ h_text = <<>>
    /\ h_props = [size |-> 0, is_bold |-> FALSE, color |-> 0]
    /\ h_level = None
    /\ h_rule = "unset"
    /\ hpc = "idle"
    /\ listing = <<>>
    /\ output_dir_exists = TRUE
    /\ file_idx = 0
    /\ bpc = "idle"
    /\ open_handles = {}
    /\ outputs = {}
    /\ writes = <<>>
    /\ found = <<>>
    /\ errors = <<>>
    /\ outcome = <<>>

\* doc = fitz.open(pdf_path); result and elements start empty
OpenDoc ==
    /\ epc = "open"
    /\ doc_open' = TRUE
    /\ epc' = "pages"
    /\ UNCHANGED <<notExtract, page_num, width, height, elements, result,
                   page_heights, visited>>

\* the page loop moves to the next page and rebinds width and height
NextPage ==
    /\ epc = "pages"
    /\ page_num + 1 < MaxPages
    /\ \E w \in PageWidths : \E h \in PageHeights :
          /\ width' = w
          /\ height' = h
          /\ page_heights' = Append(page_heights, h)
    /\ page_num' = page_num + 1
    /\ UNCHANGED <<notExtract, doc_open, elements, result, epc, visited>>

\* a block without "lines" is skipped
SkipBlock ==
    /\ epc = "pages"
    /\ page_num >= 0
    /\ Len(visited) < MaxItems
    /\ visited' = Append(visited, [kind |-> "image", page |-> page_num])
    /\ UNCHANGED <<notExtract, doc_open, page_num, width, height, elements,
                   result, epc, page_heights>>

\* one line of a text block
ReadLine ==
    /\ epc = "pages"
    /\ page_num >= 0
    /\ Len(visited) < MaxItems
    /\ \E line \in Lines :
          /\ visited' = Append(visited, [kind |-> "line", page |-> page_num,
                                         line |-> line])
          /\ elements' = read_line(elements, line, page_num, width)
    /\ UNCHANGED <<notExtract, doc_open, page_num, width, height, result, epc,
                   page_heights>>

\* range(len(doc)) is exhausted
EndPages ==
    /\ epc = "pages"
    /\ epc' = "title"
    /\ UNCHANGED <<notExtract, doc_open, page_num, width, height, elements,
                   result, page_heights, visited>>

DetectTitle ==
    /\ epc = "title"
    /\ result' = [result EXCEPT !.title = detect_title(elements, height)]
    /\ epc' = "headings"
    /\ UNCHANGED <<notExtract, doc_open, page_num, width, height, elements,
                   page_heights, visited>>

DetectHeadings ==
    /\ epc = "headings"
    /\ result' = [result EXCEPT !.outline = detect_headings(elements)]
    /\ epc' = "close"
    /\ UNCHANGED <<notExtract, doc_open, page_num, width, height, elements,
                   page_heights, visited>>

\* doc.close(); return result
CloseDoc ==
    /\ epc = "close"
    /\ doc_open' = FALSE
    /\ epc' = "returned"
    /\ UNCHANGED <<notExtract, page_num, width, height, elements, result,
                   page_heights, visited>>

NextExtract ==
    \/ OpenDoc
    \/ NextPage
    \/ SkipBlock
    \/ ReadLine
    \/ EndPages
    \/ DetectTitle
    \/ DetectHeadings
    \/ CloseDoc

-----------------------------------------------------------------------------
(* process_pdfs over a directory listing of at most MaxFiles names.  The   *)
(* parser decides whether a document opens and whether its pages read; the *)
(* extraction itself is the machine above.                                 *)

MaxFiles == 3

DotPdf == <<".","p","d","f">>

DotJson == <<".","j","s","o","n">>

\* str.endswith
endswith(s, suffix) == MatchAt(s, suffix, Len(s) - Len(suffix) + 1)

\* position of the last "." in s, 0 if none
RECURSIVE rfind_dot(_)
rfind_dot(s) ==
    IF s = <<>> THEN 0
    ELSE IF s[Len(s)] = "." THEN Len(s) ELSE rfind_dot(SubSeq(s, 1, Len(s) - 1))

\* os.path.splitext(filename)[0] for a name without directory part: the
\* name up to its last dot, unless only dots precede that dot
splitext_root(filename) ==
    LET dot == rfind_dot(filename) IN
    IF dot > 0 /\ \E i \in 1..(dot - 1) : filename[i] # "."
    THEN SubSeq(filename, 1, dot - 1)
    ELSE filename

output_name(filename) == splitext_root(filename) \o DotJson

FileNames ==
    { <<"a",".","p","d","f">>, <<"a",".","P","D","F">>, <<"b",".","p","d","f">>,
      <<"b",".","t","x","t">>, <<"p","d","f">>, DotPdf }

\* os.listdir: distinct names, in any order
Listings ==
    {l \in SeqsUpTo(FileNames, MaxFiles) :
        \A i \in 1..Len(l) : \A j \in 1..Len(l) : i # j => l[i] # l[j]}

InitBatch ==
    /\ listing \in Listings
    /\ output_dir_exists \in BOOLEAN
    /\ file_idx = 0
    /\ bpc = "start"
    /\ open_handles = {}
    /\ outputs = {}
    /\ writes = <<>>
    /\ found = <<>>
    /\ errors = <<>>
    /\ outcome = [i \in 1..Len(listing) |-> "pending"]
    \* the other machines stay idle
    /\ raw = <<>>
    /\ cleaned = <<>>
    /\ recleaned = <<>>
    /\ cpc = "idle"
    /\ h_text = <<>>
    /\ h_props = [size |-> 0, is_bold |-> FALSE, color |-> 0]
    /\ h_level = None
    /\ h_rule = "unset"
    /\ hpc = "idle"
    /\ doc_open = FALSE
    /\ page_num = -1
    /\ width = 0
    /\ height = 0
    /\ elements = <<>>
    /\ result = [title |-> <<>>, outline |-> <<>>]
    /\ epc = "idle"
    /\ page_heights = <<>>
    /\ visited = <<>>

\* the output directory is created when missing; the processor is built
Start ==
    /\ bpc = "start"
    /\ output_dir_exists' = TRUE
    /\ bpc' = "loop"
    /\ UNCHANGED <<notBatch, listing, file_idx, open_handles, outputs, writes,
                   found, errors, outcome>>

\* the loop takes the next name; only a name ending in .pdf enters the try
NextFile ==
    /\ bpc = "loop"
    /\ file_idx < Len(listing)
    /\ LET filename == listing[file_idx + 1] IN
          /\ found' = Append(found, filename)
          /\ IF endswith(lower(filename), DotPdf)
             THEN /\ file_idx' = file_idx + 1
                  /\ bpc' = "open"
                  /\ outcome' = outcome
             ELSE /\ file_idx' = file_idx + 1
                  /\ bpc' = "loop"
                  /\ outcome' = [outcome EXCEPT ![file_idx + 1] = "skipped"]
    /\ UNCHANGED <<notBatch, listing, output_dir_exists, open_handles,
                   outputs, writes, errors>>

\* fitz.open returns a document handle
OpenSucceeds ==
    /\ bpc = "open"
    /\ open_handles' = open_handles \cup {file_idx}
    /\ bpc' = "read"
    /\ UNCHANGED <<notBatch, listing, output_dir_exists, file_idx, outputs,
                   writes, found, errors, outcome>>

\* fitz.open raises: no handle was acquired
OpenRaises ==
    /\ bpc = "open"
    /\ outcome' = [outcome EXCEPT ![file_idx] = "failed"]
    /\ bpc' = "except"
    /\ UNCHANGED <<notBatch, listing, output_dir_exists, file_idx,
                   open_handles, outputs, writes, found, errors>>

\* the page loop runs to its end
ReadSucceeds ==
    /\ bpc = "read"
    /\ bpc' = "detect"
    /\ UNCHANGED <<notBatch, listing, output_dir_exists, file_idx,
                   open_handles, outputs, writes, found, errors, outcome>>

\* reading a page or a line raises: control leaves extract_pdf_structure
\* from inside the loop, with doc.close() not reached
ReadRaises ==
    /\ bpc = "read"
    /\ outcome' = [outcome EXCEPT ![file_idx] = "failed"]
    /\ bpc' = "except"
    /\ UNCHANGED <<notBatch, listing, output_dir_exists, file_idx,
                   open_handles, outputs, writes, found, errors>>

\* title and heading detection, then doc.close() and return
DetectAndClose ==
    /\ bpc = "detect"
    /\ open_handles' = open_handles \ {file_idx}
    /\ outcome' = [outcome EXCEPT ![file_idx] = "ok"]
    /\ bpc' = "write"
    /\ UNCHANGED <<notBatch, listing, output_dir_exists, file_idx, outputs,
                   writes, found, errors>>

\* json.dump of the structure to output_path
WriteOutput ==
    /\ bpc = "write"
    /\ LET name == output_name(listing[file_idx]) IN
          /\ outputs' = outputs \cup {name}
          /\ writes' = Append(writes, [file |-> file_idx, name |-> name])
    /\ bpc' = "loop"
    /\ UNCHANGED <<notBatch, listing, output_dir_exists, file_idx,
                   open_handles, found, errors, outcome>>

HandleErrorAborts ==
    /\ bpc = "except"
    /\ errors' = Append(errors, file_idx)
    /\ bpc' = "done"
    /\ UNCHANGED <<notBatch, listing, output_dir_exists, file_idx,
                   open_handles, outputs, writes, found, outcome>>

\* except Exception: the error is printed and the loop goes on
HandleError ==
    /\ bpc = "except"
    /\ errors' = Append(errors, file_idx)
    /\ bpc' = "loop"
    /\ UNCHANGED <<notBatch, listing, output_dir_exists, file_idx,
                   open_handles, outputs, writes, found, outcome>>

\* the listing is exhausted
FinishBatch ==
    /\ bpc = "loop"
    /\ file_idx = Len(listing)
    /\ bpc' = "done"
    /\ UNCHANGED <<notBatch, listing, output_dir_exists, file_idx,
                   open_handles, outputs, writes, found, errors, outcome>>

NextBatch ==
    \/ Start
    \/ NextFile
    \/ OpenSucceeds
    \/ OpenRaises
    \/ ReadSucceeds
    \/ ReadRaises
    \/ DetectAndClose
    \/ WriteOutput
    \/ HandleError
    \/ FinishBatch

-----------------------------------------------------------------------------
(* Specifications *)

vars == <<cleanVars, classifyVars, extractVars, batchVars>>

SpecClean == InitClean /\ [][NextClean]_vars

SpecClassify == InitClassify /\ [][NextClassify]_vars

SpecExtract == InitExtract /\ [][NextExtract]_vars

SpecBatch == InitBatch /\ [][NextBatch]_vars

\* the run is sequential and nothing blocks it: an enabled step is taken
FairSpecBatch == SpecBatch /\ WF_vars(NextBatch)

-----------------------------------------------------------------------------
(* Claims *)

\* C8: clean_text is idempotent: cleaning a cleaned text returns it unchanged.
CleanIdempotent == cpc = "recleaned" => recleaned = cleaned

\* C4: veto totality: a text that is_ignored_text accepts is classified None
\* under every font profile.
VetoTotality ==
    (hpc = "returned" /\ is_ignored_text(h_text)) => h_level = None

\* an ignored text whose profile would otherwise make it a heading
VetoWitness ==
    /\ hpc = "returned"
    /\ is_ignored_text(h_text)
    /\ Len(h_text) >= 5
    /\ h_props.is_bold
    /\ h_props.size >= 175
    /\ h_level = None

\* C9: rule-order precedence: a non-ignored text of length at least 5 in a
\* bold font of size at least 17.5 is classified H1, also when it satisfies
\* the H2 profile.
RuleOrderPrecedence ==
    ( /\ hpc = "returned"
      /\ ~is_ignored_text(h_text)
      /\ Len(h_text) >= 5
      /\ h_props.is_bold
      /\ h_props.size >= 175 ) => h_level = "H1"

\* a title-case text in the H2 size range that came out as H1
PrecedenceWitness ==
    /\ hpc = "returned"
    /\ ~is_ignored_text(h_text)
    /\ Len(h_text) >= 5
    /\ istitle(h_text) /\ ~isupper(h_text)
    /\ h_props.is_bold
    /\ h_props.size >= 180 /\ h_props.size <= 239
    /\ h_level = "H1"

\* the condition of the H2 fallback rule
FallbackH2Condition(t, props) ==
    /\ 140 <= props.size /\ props.size <= 165
    /\ props.is_bold
    /\ 2 <= Len(split(t)) /\ Len(split(t)) <= 5

\* C10: H2 is returned only by the primary H2 profile and only for a text of
\* exactly 4 characters (bold, title case, size 18 to 23.9); the H2 fallback
\* rule never decides, its texts being taken by the primary H3 profile.
H2OnlyPrimaryFourChars ==
    hpc = "returned" =>
        /\ h_rule # "fallback_H2"
        /\ h_level = "H2" =>
              /\ h_rule = "H2"
              /\ Len(h_text) = 4
              /\ h_props.is_bold
              /\ istitle(h_text) /\ ~isupper(h_text)
              /\ 180 <= h_props.size /\ h_props.size <= 239
        /\ (FallbackH2Condition(h_text, h_props) /\ ~is_ignored_text(h_text))
              => (h_rule = "H3" /\ Len(h_text) >= 3)

\* a text classified H2
H2Witness == hpc = "returned" /\ h_level = "H2"

\* a text the H2 fallback rule would accept, decided by the H3 profile
FallbackShadowedWitness ==
    /\ hpc = "returned"
    /\ FallbackH2Condition(h_text, h_props)
    /\ h_rule = "H3"

\* the entries a line of cleaned text clean gives: none or one
EntriesOf(lvl, clean, page) ==
    IF lvl = None THEN <<>> ELSE <<[level |-> lvl, text |-> clean, page |-> page]>>

SurvivorEntries(clean, spans, page) ==
    IF clean = <<>> THEN <<>>
    ELSE EntriesOf(determine_heading_level(clean, get_font_properties(spans)),
                   clean, page)

\* the outline entries the visited blocks and lines call for, one by one
RECURSIVE ExpectedOutline(_)
ExpectedOutline(items) ==
    IF items = <<>> THEN <<>>
    ELSE IF Head(items).kind # "line" \/ Head(items).line.spans = <<>>
         THEN ExpectedOutline(Tail(items))
    ELSE SurvivorEntries(clean_text(JoinSpanTexts(Head(items).line.spans)),
                         Head(items).line.spans, Head(items).page)
             \o ExpectedOutline(Tail(items))

\* C3: the returned outline is exactly the subsequence of the surviving lines
\* whose classification is not None, in visiting order, one entry per line
\* with its cleaned text and page, nothing reordered, dropped or merged.
OutlineIsOrderedSubsequence ==
    epc = "returned" => result.outline = ExpectedOutline(visited)

\* two adjacent equal entries are both kept, and some visited item gave none
OutlineWitness ==
    /\ epc = "returned"
    /\ Len(result.outline) >= 2
    /\ \E i \in 1..(Len(result.outline) - 1) :
          result.outline[i] = result.outline[i + 1]

\* C5: the returned title is empty or the text of a line that
\* is_ignored_text rejects.
TitleNeverIgnored ==
    epc = "returned" =>
        \/ result.title = <<>>
        \/ \E i \in 1..Len(elements) :
              elements[i].text = result.title /\ ~is_ignored_text(elements[i].text)

\* C6: a non-empty title is the text of a centered element of page 0 whose
\* top edge lies above 30% of the height of page 0.
TitleNearTopOfFirstPage ==
    (epc = "returned" /\ result.title # <<>>) =>
        \E i \in 1..Len(elements) :
            /\ elements[i].text = result.title
            /\ elements[i].page = 0
            /\ elements[i].center_pos
            /\ elements[i].bbox[2] * 10 < page_heights[1] * 3

\* element i passes the title filter (page 0, centered, near the top by the
\* page height the title block reads)
QualifiesForTitle(i) ==
    /\ elements[i].page = 0
    /\ elements[i].center_pos
    /\ elements[i].bbox[2] * 10 < height * 3

\* element i is the candidate: largest size, first among equals
IsCandidate(i) ==
    /\ QualifiesForTitle(i)
    /\ \A j \in 1..Len(elements) :
          QualifiesForTitle(j) =>
              /\ elements[j].props.size <= elements[i].props.size
              /\ (j < i => elements[j].props.size < elements[i].props.size)

\* C7: the candidate is the qualifying page-0 element of maximum font size,
\* the first on a tie; the title is its text when that has at least 5
\* characters, and empty when it is shorter or when nothing qualifies.
TitleSelection ==
    epc = "returned" =>
        /\ (\A i \in 1..Len(elements) : ~QualifiesForTitle(i))
              => result.title = <<>>
        /\ \A i \in 1..Len(elements) :
              IsCandidate(i) =>
                  result.title = (IF Len(elements[i].text) >= 5
                                  THEN elements[i].text ELSE <<>>)

\* two qualifying elements tie on size with different texts, the first wins
TitleTieWitness ==
    /\ epc = "returned"
    /\ result.title # <<>>
    /\ \E i \in 1..Len(elements) : \E j \in 1..Len(elements) :
          /\ IsCandidate(i)
          /\ i < j
          /\ QualifiesForTitle(j)
          /\ elements[j].props.size = elements[i].props.size
          /\ elements[j].text # elements[i].text

\* the candidate is too short although a longer element qualifies
TitleShortCandidateWitness ==
    /\ epc = "returned"
    /\ result.title = <<>>
    /\ \E i \in 1..Len(elements) : \E j \in 1..Len(elements) :
          /\ IsCandidate(i)
          /\ Len(elements[i].text) < 5
          /\ QualifiesForTitle(j)
          /\ Len(elements[j].text) >= 5

\* no outline entry carries an ignored text (the corollary of C4)
OutlineNeverIgnored ==
    \A i \in 1..Len(result.outline) : ~is_ignored_text(result.outline[i].text)

\* C1: the document handle is released on every exit path of
\* extract_pdf_structure: when process_pdfs is back at its loop, or done,
\* no handle is open.
HandleReleasedOnEveryPath == bpc \in {"loop", "done"} => open_handles = {}

\* a .pdf name without its extension; a name that is nothing but the
\* extension keeps it
BaseName(filename) ==
    IF Len(filename) > Len(DotPdf)
    THEN SubSeq(filename, 1, Len(filename) - Len(DotPdf))
    ELSE filename

WritesFor(i) == {k \in 1..Len(writes) : writes[k].file = i}

LogsFor(i) == {k \in 1..Len(errors) : errors[k] = i}

BatchOutcome ==
    /\ found = listing
    /\ \A i \in 1..Len(listing) :
          /\ outcome[i] \in {"ok", "failed", "skipped"}
          /\ outcome[i] = "skipped" <=> ~endswith(lower(listing[i]), DotPdf)
          /\ outcome[i] = "ok" =>
                /\ Cardinality(WritesFor(i)) = 1
                /\ \A k \in WritesFor(i) :
                      /\ writes[k].name = BaseName(listing[i]) \o DotJson
                      /\ writes[k].name \in outputs
                /\ LogsFor(i) = {}
          /\ outcome[i] = "failed" =>
                /\ WritesFor(i) = {}
                /\ Cardinality(LogsFor(i)) = 1
          /\ outcome[i] = "skipped" => (WritesFor(i) = {} /\ LogsFor(i) = {})

\* C2: whatever the listing and whichever extractions fail, the run ends
\* with every listed file visited, one JSON output named after the base name
\* for each .pdf file whose extraction succeeded, and no output but one
\* logged message for each whose extraction failed.
BatchSurvivesFailures ==
    /\ <>(bpc = "done")
    /\ [](bpc = "done" => BatchOutcome)

\* a failed file is followed by a file that was processed
FailureThenSuccessWitness ==
    /\ bpc = "done"
    /\ \E i \in 1..Len(listing) : \E j \in 1..Len(listing) :
          i < j /\ outcome[i] = "failed" /\ outcome[j] = "ok"

====
